---- MODULE Spec2Model ----
(***************************************************************************)
(* Model of the remote caching system of Universal Recycle                 *)
(* (src/recycle/cache.py): CacheEntry, the Redis / S3 / local backends and *)
(* the CacheManager that fronts an ordered list of them.                   *)
(*                                                                         *)
(* Time is an integer clock counted in ticks; TicksPerSecond ticks make    *)
(* one second, so that the whole-second truncation of the Redis backend    *)
(* and sub-second delays inside one call can both be expressed.            *)
(* Optional values (Python's None) are sequences of length at most one:    *)
(* <<>> is None and <<v>> is the value v.                                  *)
(***************************************************************************)
EXTENDS Integers, Sequences, FiniteSets, TLC

VARIABLES
    config,           \* CacheManager.config["backends"]: the configured backends
    REDIS_AVAILABLE,  \* module global: the redis package could be imported
    BOTO3_AVAILABLE,  \* module global: the boto3 package could be imported
    phase,            \* "new", "constructed", or "raised" (constructor threw)
    backends,         \* CacheManager.backends: kinds of the active backends
    store,            \* store[i][k]: what backend i holds for key k
    now,              \* the wall clock, in ticks
    keys,             \* the keys the callers of this run use
    last,             \* the last CacheManager call and what it returned
    derived,          \* the cache keys derived so far, each with its inputs
    prefix,           \* RedisCacheBackend.prefix / S3CacheBackend.prefix
    server,           \* the names held by the store a backend shares
    fs,               \* the file system: the files under each directory
    tmpfiles,         \* the temporary archive files that exist
    threads           \* threads[t]: the backend call thread t is making

vars ==
    <<config, REDIS_AVAILABLE, BOTO3_AVAILABLE, phase, backends, store, now,
      keys, last, derived, prefix, server, fs, tmpfiles, threads>>

\* What the cache manager's own operations never touch.
outside == <<derived, prefix, server, fs, tmpfiles, threads>>

(***************************************************************************)
(* Bounds of the model.                                                    *)
(***************************************************************************)
MaxTime == 3
MaxBackends == 2
TicksPerSecond == 2
DefaultTtl == 1

Payloads == {"p", "q"}
Unpicklable == "unpicklable"
Lags == {0, 1}

None == <<>>
Some(v) == <<v>>

(***************************************************************************)
(* CacheEntry.  A stored object is the pickled entry together with what    *)
(* the store itself keeps about it: px, the instant at which Redis drops   *)
(* the key on its own (SETEX), and readable, FALSE for a local file that   *)
(* was truncated by a write that failed half way.                          *)
(***************************************************************************)
CacheEntry(data, created_at, expires_at) ==
    [data |-> data, created_at |-> created_at, expires_at |-> expires_at]

\* The comparison of is_expired turned around.
is_expired_reversed(entry, t) ==
    IF entry.expires_at = None THEN FALSE ELSE t < entry.expires_at[1]

is_expired(entry, t) ==
    IF entry.expires_at = None THEN FALSE ELSE t > entry.expires_at[1]

Stored(entry, px) ==
    [data |-> entry.data, created_at |-> entry.created_at,
     expires_at |-> entry.expires_at, px |-> px, readable |-> TRUE]

Truncated ==
    [data |-> "", created_at |-> 0, expires_at |-> None, px |-> None,
     readable |-> FALSE]

from_dict(obj) == CacheEntry(obj.data, obj.created_at, obj.expires_at)

\* Python's int() of n / d for d > 0: truncation towards zero.
IntDiv(n, d) == IF n >= 0 THEN n \div d ELSE 0 - ((0 - n) \div d)

Kinds == {"redis", "s3", "local"}

\* What can go wrong inside one backend call: "err" is an exception raised
\* by the I/O call before anything changed (unreachable server, permission
\* denied); "partial" is the local file opened for writing, hence
\* truncated, and the dump failing afterwards.
FailModes(kind, op) ==
    IF kind = "local" /\ op = "set" THEN {"ok", "err", "partial"}
    ELSE {"ok", "err"}

\* The key is still held by the Redis server at time t.
RedisLive(cell, t) == cell # None /\ t < cell[1].px[1]

(***************************************************************************)
(* The backends.  Each operation takes the cell the backend holds for the  *)
(* key, the clock reading t inside the call and the fault of the call, and *)
(* yields the new cell and the returned value.                             *)
(***************************************************************************)
RedisGet(cell, t, fail) ==
    IF fail # "ok" THEN [cell |-> cell, ret |-> None]
    ELSE IF ~RedisLive(cell, t) THEN [cell |-> cell, ret |-> None]
    ELSE IF is_expired(from_dict(cell[1]), t) THEN [cell |-> None, ret |-> None]
    ELSE [cell |-> cell, ret |-> Some(from_dict(cell[1]))]

RedisSet(cell, entry, t, fail) ==
    IF fail # "ok" THEN [cell |-> cell, ret |-> FALSE]
    ELSE LET ttl == IF entry.expires_at # None
                    THEN IntDiv(entry.expires_at[1] - t, TicksPerSecond)
                    ELSE DefaultTtl
         IN  IF ttl <= 0 THEN [cell |-> cell, ret |-> FALSE]
             ELSE [cell |-> Some(Stored(entry, Some(t + ttl * TicksPerSecond))),
                   ret |-> TRUE]

RedisDelete(cell, t, fail) ==
    IF fail # "ok" THEN [cell |-> cell, ret |-> FALSE]
    ELSE [cell |-> None, ret |-> RedisLive(cell, t)]

RedisExists(cell, t, fail) ==
    IF fail # "ok" THEN [cell |-> cell, ret |-> FALSE]
    ELSE [cell |-> cell, ret |-> RedisLive(cell, t)]

S3Get(cell, t, fail) ==
    IF fail # "ok" THEN [cell |-> cell, ret |-> None]
    ELSE IF cell = None THEN [cell |-> cell, ret |-> None]
    ELSE IF cell[1].expires_at # None /\ t > cell[1].expires_at[1]
         THEN [cell |-> None, ret |-> None]
    ELSE [cell |-> cell, ret |-> Some(from_dict(cell[1]))]

S3Set(cell, entry, t, fail) ==
    IF fail # "ok" THEN [cell |-> cell, ret |-> FALSE]
    ELSE [cell |-> Some(Stored(entry, None)), ret |-> TRUE]

S3Delete(cell, t, fail) ==
    IF fail # "ok" THEN [cell |-> cell, ret |-> FALSE]
    ELSE [cell |-> None, ret |-> TRUE]

S3Exists(cell, t, fail) ==
    IF fail # "ok" THEN [cell |-> cell, ret |-> FALSE]
    ELSE [cell |-> cell, ret |-> cell # None]

\* A get that reports an expired entry as absent and leaves the file.
LocalGetKeepsExpired(cell, t, fail) ==
    IF fail # "ok" THEN [cell |-> cell, ret |-> None]
    ELSE IF cell = None THEN [cell |-> cell, ret |-> None]
    ELSE IF ~cell[1].readable THEN [cell |-> cell, ret |-> None]
    ELSE IF is_expired(from_dict(cell[1]), t) THEN [cell |-> cell, ret |-> None]
    ELSE [cell |-> cell, ret |-> Some(from_dict(cell[1]))]

LocalGet(cell, t, fail) ==
    IF fail # "ok" THEN [cell |-> cell, ret |-> None]
    ELSE IF cell = None THEN [cell |-> cell, ret |-> None]
    ELSE IF ~cell[1].readable THEN [cell |-> cell, ret |-> None]
    ELSE IF is_expired(from_dict(cell[1]), t) THEN [cell |-> None, ret |-> None]
    ELSE [cell |-> cell, ret |-> Some(from_dict(cell[1]))]

LocalSet(cell, entry, t, fail) ==
    IF fail = "err" THEN [cell |-> cell, ret |-> FALSE]
    ELSE IF fail = "partial" THEN [cell |-> Some(Truncated), ret |-> FALSE]
    ELSE [cell |-> Some(Stored(entry, None)), ret |-> TRUE]

LocalDelete(cell, t, fail) ==
    IF fail # "ok" THEN [cell |-> cell, ret |-> FALSE]
    ELSE [cell |-> None, ret |-> cell # None]

LocalExists(cell, t, fail) ==
    IF fail # "ok" THEN [cell |-> cell, ret |-> FALSE]
    ELSE [cell |-> cell, ret |-> cell # None]

\* Dynamic dispatch on the backend object's class.
BackendGet(kind, cell, t, fail) ==
    CASE kind = "redis" -> RedisGet(cell, t, fail)
      [] kind = "s3"    -> S3Get(cell, t, fail)
      [] kind = "local" -> LocalGet(cell, t, fail)

BackendSet(kind, cell, entry, t, fail) ==
    CASE kind = "redis" -> RedisSet(cell, entry, t, fail)
      [] kind = "s3"    -> S3Set(cell, entry, t, fail)
      [] kind = "local" -> LocalSet(cell, entry, t, fail)

BackendDelete(kind, cell, t, fail) ==
    CASE kind = "redis" -> RedisDelete(cell, t, fail)
      [] kind = "s3"    -> S3Delete(cell, t, fail)
      [] kind = "local" -> LocalDelete(cell, t, fail)

BackendExists(kind, cell, t, fail) ==
    CASE kind = "redis" -> RedisExists(cell, t, fail)
      [] kind = "s3"    -> S3Exists(cell, t, fail)
      [] kind = "local" -> LocalExists(cell, t, fail)

\* clear() and get_stats() act on the backend's whole namespace.
BackendClear(kind, cells, fail) ==
    IF fail # "ok" THEN [cells |-> cells, ret |-> FALSE]
    ELSE [cells |-> [k \in DOMAIN cells |-> None], ret |-> TRUE]

BackendStats(kind, cells, fail) ==
    [backend |-> kind, error |-> fail # "ok"]

(***************************************************************************)
(* Construction: CacheManager.__init__ and _setup_backends.                *)
(* A configured backend is a record: type is the value under "type"        *)
(* (None when the key is missing), bucket_name tells whether an s3 entry   *)
(* carries "bucket_name", writable whether a local entry's cache_dir can   *)
(* be created.                                                             *)
(***************************************************************************)
BackendConfig(type, bucket_name, writable) ==
    [type |-> type, bucket_name |-> bucket_name, writable |-> writable]

ConfigEntries ==
    {BackendConfig(Some("local"), FALSE, w) : w \in BOOLEAN}
    \cup {BackendConfig(Some("s3"), b, TRUE) : b \in BOOLEAN}
    \cup {BackendConfig(Some("redis"), FALSE, TRUE),
          BackendConfig(Some("gcs"), FALSE, TRUE),
          BackendConfig(None, FALSE, TRUE)}

\* Entries whose backend can be constructed when both client libraries
\* are installed.
UsableEntries ==
    {BackendConfig(Some("local"), FALSE, TRUE),
     BackendConfig(Some("s3"), TRUE, TRUE),
     BackendConfig(Some("redis"), FALSE, TRUE)}

SeqsUpTo(S, n) == UNION {[1..m -> S] : m \in 0..n}

\* The constructor of the backend class returns instead of raising.
RedisInit(c) == REDIS_AVAILABLE
S3Init(c) == BOTO3_AVAILABLE /\ c.bucket_name
LocalInit(c) == c.writable

RECURSIVE SetupFrom(_, _, _)
SetupFrom(i, cfg, acc) ==
    IF i > Len(cfg) THEN [backends |-> acc, raised |-> FALSE]
    ELSE IF cfg[i].type = None THEN [backends |-> acc, raised |-> TRUE]
    ELSE LET type == cfg[i].type[1]
             built == CASE type = "redis" -> RedisInit(cfg[i])
                        [] type = "s3"    -> S3Init(cfg[i])
                        [] type = "local" -> LocalInit(cfg[i])
                        [] OTHER          -> FALSE
         IN  IF type \in Kinds /\ built
             THEN SetupFrom(i + 1, cfg, Append(acc, type))
             ELSE SetupFrom(i + 1, cfg, acc)

\* Construction that gives up at the first backend it cannot build.
RECURSIVE SetupUntilFailure(_, _, _)
SetupUntilFailure(i, cfg, acc) ==
    IF i > Len(cfg) THEN [backends |-> acc, raised |-> FALSE]
    ELSE IF cfg[i].type = None THEN [backends |-> acc, raised |-> TRUE]
    ELSE LET type == cfg[i].type[1]
             built == CASE type = "redis" -> RedisInit(cfg[i])
                        [] type = "s3"    -> S3Init(cfg[i])
                        [] type = "local" -> LocalInit(cfg[i])
                        [] OTHER          -> FALSE
         IN  IF type \in Kinds /\ built
             THEN SetupUntilFailure(i + 1, cfg, Append(acc, type))
             ELSE [backends |-> acc, raised |-> FALSE]

_setup_backends_stops(cfg) == SetupUntilFailure(1, cfg, <<>>)

_setup_backends(cfg) == SetupFrom(1, cfg, <<>>)

EmptyStore(bs) == [i \in 1..Len(bs) |-> [k \in keys |-> None]]

(***************************************************************************)
(* The record of a CacheManager call: the operation and its arguments,     *)
(* calls what each backend that was called returned, and the value         *)
(* returned (entry for get, ok for the boolean operations, calls and       *)
(* total_backends for get_stats) or raised.                                *)
(***************************************************************************)
NoTtl == [given |-> FALSE, secs |-> 0, overflow |-> FALSE]
Ttl(n) == [given |-> TRUE, secs |-> n, overflow |-> FALSE]
\* A ttl so large that datetime.now() + timedelta(seconds=ttl) is out of range.
TtlTooLarge == [given |-> TRUE, secs |-> 0, overflow |-> TRUE]
TtlArgs == {NoTtl, TtlTooLarge} \cup {Ttl(n) : n \in {0 - 1, 0, 1}}

\* The (data, ttl) arguments of set: every payload with every ttl that
\* construction of the entry accepts, and the two that it does not.
SetArgs ==
    (Payloads \X (TtlArgs \ {TtlTooLarge}))
    \cup {<<Unpicklable, NoTtl>>, <<"p", TtlTooLarge>>}

NoCall ==
    [op |-> "none", key |-> "", data |-> "", ttl |-> NoTtl, calls |-> <<>>,
     entry |-> None, ok |-> FALSE, total_backends |-> 0, raised |-> FALSE]

Faults(op) ==
    {f \in [1..Len(backends) -> {"ok", "err", "partial"}] :
        \A i \in 1..Len(backends) : f[i] \in FailModes(backends[i], op)}

(***************************************************************************)
(* CacheManager.get: the first backend that yields an entry serves it.     *)
(***************************************************************************)
RECURSIVE GetFrom(_, _, _, _, _)
GetFrom(i, st, key, t, fails) ==
    IF i > Len(backends) THEN [store |-> st, calls |-> <<>>, entry |-> None]
    ELSE LET r == BackendGet(backends[i], st[i][key], t, fails[i])
             st1 == [st EXCEPT ![i][key] = r.cell]
         IN  IF r.ret # None
             THEN [store |-> st1, calls |-> <<r.ret>>, entry |-> r.ret]
             ELSE LET rest == GetFrom(i + 1, st1, key, t, fails)
                  IN  [rest EXCEPT !.calls = <<r.ret>> \o @]

\* get that keeps going after a hit and returns the last entry found.
RECURSIVE GetLastFrom(_, _, _, _, _)
GetLastFrom(i, st, key, t, fails) ==
    IF i > Len(backends) THEN [store |-> st, calls |-> <<>>, entry |-> None]
    ELSE LET r == BackendGet(backends[i], st[i][key], t, fails[i])
             rest == GetLastFrom(i + 1, [st EXCEPT ![i][key] = r.cell],
                                 key, t, fails)
         IN  [rest EXCEPT !.calls = <<r.ret>> \o @,
                          !.entry = IF @ # None THEN @ ELSE r.ret]

ManagerGetLastHit(st, key, t, fails) == GetLastFrom(1, st, key, t, fails)

\* get that copies a hit into the backends tried before the one serving it.
ManagerGetBackfill(st, key, t, fails) ==
    LET r == GetFrom(1, st, key, t, fails)
    IN  IF r.entry = None THEN r
        ELSE [r EXCEPT !.store =
                 [i \in 1..Len(backends) |->
                     IF i < Len(r.calls)
                     THEN [r.store[i] EXCEPT ![key] =
                              Some(Stored(r.entry[1], None))]
                     ELSE r.store[i]]]

ManagerGet(st, key, t, fails) == GetFrom(1, st, key, t, fails)

(***************************************************************************)
(* CacheManager.set: one entry, written to every backend.                  *)
(***************************************************************************)
RECURSIVE SetFrom(_, _, _, _, _, _)
SetFrom(i, st, key, entry, t, fails) ==
    IF i > Len(backends) THEN [store |-> st, calls |-> <<>>, ok |-> FALSE]
    ELSE LET r == BackendSet(backends[i], st[i][key], entry, t, fails[i])
             rest == SetFrom(i + 1, [st EXCEPT ![i][key] = r.cell],
                             key, entry, t, fails)
         IN  [rest EXCEPT !.calls = <<r.ret>> \o @, !.ok = r.ret \/ @]

\* expires_at as computed at lines 562-564: "if ttl:" is false for 0.
ExpiresAt(ttl, t0) ==
    IF ttl.given /\ ttl.secs # 0 THEN Some(t0 + ttl.secs * TicksPerSecond)
    ELSE None

\* The statements of set that run outside any try block raise.
SetRaises(data, ttl) == (ttl.given /\ ttl.overflow) \/ data = Unpicklable

\* set that stops at the first backend that accepts the write.
RECURSIVE SetUntilSuccess(_, _, _, _, _, _)
SetUntilSuccess(i, st, key, entry, t, fails) ==
    IF i > Len(backends) THEN [store |-> st, calls |-> <<>>, ok |-> FALSE]
    ELSE LET r == BackendSet(backends[i], st[i][key], entry, t, fails[i])
             st1 == [st EXCEPT ![i][key] = r.cell]
         IN  IF r.ret THEN [store |-> st1, calls |-> <<r.ret>>, ok |-> TRUE]
             ELSE LET rest == SetUntilSuccess(i + 1, st1, key, entry, t, fails)
                  IN  [rest EXCEPT !.calls = <<r.ret>> \o @]

ManagerSetFirstOnly(st, key, data, ttl, t0, t, fails) ==
    SetUntilSuccess(1, st, key, CacheEntry(data, t0, ExpiresAt(ttl, t0)),
                    t, fails)

ManagerSet(st, key, data, ttl, t0, t, fails) ==
    SetFrom(1, st, key, CacheEntry(data, t0, ExpiresAt(ttl, t0)), t, fails)

(***************************************************************************)
(* CacheManager.delete, exists, clear and get_stats.                       *)
(***************************************************************************)
RECURSIVE DeleteFrom(_, _, _, _, _)
DeleteFrom(i, st, key, t, fails) ==
    IF i > Len(backends) THEN [store |-> st, calls |-> <<>>, ok |-> FALSE]
    ELSE LET r == BackendDelete(backends[i], st[i][key], t, fails[i])
             rest == DeleteFrom(i + 1, [st EXCEPT ![i][key] = r.cell],
                                key, t, fails)
         IN  [rest EXCEPT !.calls = <<r.ret>> \o @, !.ok = r.ret \/ @]

\* delete that stops at the first backend that removed the key.
RECURSIVE DeleteUntilSuccess(_, _, _, _, _)
DeleteUntilSuccess(i, st, key, t, fails) ==
    IF i > Len(backends) THEN [store |-> st, calls |-> <<>>, ok |-> FALSE]
    ELSE LET r == BackendDelete(backends[i], st[i][key], t, fails[i])
             st1 == [st EXCEPT ![i][key] = r.cell]
         IN  IF r.ret THEN [store |-> st1, calls |-> <<r.ret>>, ok |-> TRUE]
             ELSE LET rest == DeleteUntilSuccess(i + 1, st1, key, t, fails)
                  IN  [rest EXCEPT !.calls = <<r.ret>> \o @]

ManagerDeleteFirstOnly(st, key, t, fails) ==
    DeleteUntilSuccess(1, st, key, t, fails)

ManagerDelete(st, key, t, fails) == DeleteFrom(1, st, key, t, fails)

RECURSIVE ExistsFrom(_, _, _, _, _)
ExistsFrom(i, st, key, t, fails) ==
    IF i > Len(backends) THEN [store |-> st, calls |-> <<>>, ok |-> FALSE]
    ELSE LET r == BackendExists(backends[i], st[i][key], t, fails[i])
         IN  IF r.ret THEN [store |-> st, calls |-> <<r.ret>>, ok |-> TRUE]
             ELSE LET rest == ExistsFrom(i + 1, st, key, t, fails)
                  IN  [rest EXCEPT !.calls = <<r.ret>> \o @]

ManagerExists(st, key, t, fails) == ExistsFrom(1, st, key, t, fails)

RECURSIVE ClearFrom(_, _, _)
ClearFrom(i, st, fails) ==
    IF i > Len(backends) THEN [store |-> st, calls |-> <<>>, ok |-> TRUE]
    ELSE LET r == BackendClear(backends[i], st[i], fails[i])
             rest == ClearFrom(i + 1, [st EXCEPT ![i] = r.cells], fails)
         IN  [rest EXCEPT !.calls = <<r.ret>> \o @, !.ok = r.ret /\ @]

\* clear that gives up at the first backend whose clear fails.
RECURSIVE ClearUntilFailure(_, _, _)
ClearUntilFailure(i, st, fails) ==
    IF i > Len(backends) THEN [store |-> st, calls |-> <<>>, ok |-> TRUE]
    ELSE LET r == BackendClear(backends[i], st[i], fails[i])
             st1 == [st EXCEPT ![i] = r.cells]
         IN  IF ~r.ret THEN [store |-> st1, calls |-> <<r.ret>>, ok |-> FALSE]
             ELSE LET rest == ClearUntilFailure(i + 1, st1, fails)
                  IN  [rest EXCEPT !.calls = <<r.ret>> \o @]

ManagerClearStops(st, fails) == ClearUntilFailure(1, st, fails)

ManagerClear(st, fails) == ClearFrom(1, st, fails)

\* get_stats that leaves out the backends that could not be reached.
RECURSIVE StatsOfReachable(_, _, _)
StatsOfReachable(i, st, fails) ==
    IF i > Len(backends) THEN <<>>
    ELSE LET r == BackendStats(backends[i], st[i], fails[i])
         IN  (IF r.error THEN <<>> ELSE <<r>>)
             \o StatsOfReachable(i + 1, st, fails)

ManagerStatsSkipsFailed(st, fails) ==
    [backends |-> StatsOfReachable(1, st, fails),
     total_backends |-> Len(backends)]

ManagerStats(st, fails) ==
    [backends |-> [i \in 1..Len(backends) |->
                      BackendStats(backends[i], st[i], fails[i])],
     total_backends |-> Len(backends)]

(***************************************************************************)
(* The state machine.  Spec starts from a constructed manager; SpecSetup   *)
(* starts before the constructor runs.                                     *)
(***************************************************************************)
\* No key derived, no shared store, no directory on disk.
NothingOutside ==
    /\ derived = {}
    /\ prefix = <<>>
    /\ server = {}
    /\ fs = <<>>
    /\ tmpfiles = {}
    /\ threads = <<>>

Init ==
    /\ config \in SeqsUpTo(UsableEntries, MaxBackends)
    /\ REDIS_AVAILABLE = TRUE
    /\ BOTO3_AVAILABLE = TRUE
    /\ phase = "constructed"
    /\ backends = _setup_backends(config).backends
    /\ keys = {"a"}
    /\ store = EmptyStore(backends)
    /\ now = 0
    /\ last = NoCall
    /\ NothingOutside

InitSetup ==
    /\ config \in SeqsUpTo(ConfigEntries, MaxBackends)
    /\ REDIS_AVAILABLE \in BOOLEAN
    /\ BOTO3_AVAILABLE \in BOOLEAN
    /\ phase = "new"
    /\ backends = <<>>
    /\ keys = {"a"}
    /\ store = <<>>
    /\ now = 0
    /\ last = NoCall
    /\ NothingOutside

\* CacheManager(config)
Construct ==
    /\ phase = "new"
    /\ LET r == _setup_backends(config)
       IN  /\ phase' = IF r.raised THEN "raised" ELSE "constructed"
           /\ backends' = r.backends
           /\ store' = EmptyStore(r.backends)
    /\ UNCHANGED <<config, REDIS_AVAILABLE, BOTO3_AVAILABLE, now, keys, last>>
    /\ UNCHANGED outside

Frame ==
    /\ UNCHANGED <<config, REDIS_AVAILABLE, BOTO3_AVAILABLE, phase, backends,
                   keys>>
    /\ UNCHANGED outside

\* No call is on record: the caller has used the result of its last call.
Idle == last.op = "none"

Call(op, key) == [NoCall EXCEPT !.op = op, !.key = key]

\* A get may follow a set or a get at once, its result still on record.
Get(key, fails) ==
    /\ phase = "constructed"
    /\ last.op \in {"none", "set", "get"}
    /\ LET r == ManagerGet(store, key, now, fails)
       IN  /\ store' = r.store
           /\ last' = [Call("get", key) EXCEPT !.calls = r.calls,
                                                !.entry = r.entry]
    /\ UNCHANGED now
    /\ Frame

\* lag is the time that passes between the two readings of the clock in
\* CacheManager.set (lines 564 and 570) and the reading in the backends.
Set(key, data, ttl, lag, fails) ==
    /\ phase = "constructed"
    /\ Idle
    /\ now + lag <= MaxTime
    /\ IF SetRaises(data, ttl)
       THEN /\ store' = store
            /\ last' = [Call("set", key)
                           EXCEPT !.data = data, !.ttl = ttl, !.raised = TRUE]
       ELSE LET r == ManagerSet(store, key, data, ttl, now, now + lag, fails)
            IN  /\ store' = r.store
                /\ last' = [Call("set", key)
                               EXCEPT !.data = data, !.ttl = ttl,
                                      !.calls = r.calls, !.ok = r.ok]
    /\ now' = now + lag
    /\ Frame

Delete(key, fails) ==
    /\ phase = "constructed"
    /\ Idle
    /\ LET r == ManagerDelete(store, key, now, fails)
       IN  /\ store' = r.store
           /\ last' = [Call("delete", key) EXCEPT !.calls = r.calls,
                                                   !.ok = r.ok]
    /\ UNCHANGED now
    /\ Frame

Exists(key, fails) ==
    /\ phase = "constructed"
    /\ Idle
    /\ LET r == ManagerExists(store, key, now, fails)
       IN  /\ store' = r.store
           /\ last' = [Call("exists", key) EXCEPT !.calls = r.calls,
                                                   !.ok = r.ok]
    /\ UNCHANGED now
    /\ Frame

Clear(fails) ==
    /\ phase = "constructed"
    /\ Idle
    /\ LET r == ManagerClear(store, fails)
       IN  /\ store' = r.store
           /\ last' = [Call("clear", "") EXCEPT !.calls = r.calls,
                                                 !.ok = r.ok]
    /\ UNCHANGED now
    /\ Frame

GetStats(fails) ==
    /\ phase = "constructed"
    /\ Idle
    /\ LET r == ManagerStats(store, fails)
       IN  last' = [Call("get_stats", "")
                       EXCEPT !.calls = r.backends,
                              !.total_backends = r.total_backends]
    /\ UNCHANGED <<store, now>>
    /\ Frame

\* The caller uses the result of its call (as cache_command does with the
\* result of clear() and get_stats()); nothing is left on record.
Return ==
    /\ phase = "constructed"
    /\ ~Idle
    /\ last' = NoCall
    /\ UNCHANGED <<store, now>>
    /\ Frame

\* Time passes between two calls.
Tick ==
    /\ phase = "constructed"
    /\ Idle
    /\ now < MaxTime
    /\ now' = now + 1
    /\ UNCHANGED <<store, last>>
    /\ Frame

Next ==
    \/ \E key \in keys, fails \in Faults("get") : Get(key, fails)
    \/ \E key \in keys, args \in SetArgs, lag \in Lags,
          fails \in Faults("set") :
          Set(key, args[1], args[2], lag, fails)
    \/ \E key \in keys, fails \in Faults("delete") : Delete(key, fails)
    \/ \E key \in keys, fails \in Faults("exists") : Exists(key, fails)
    \/ \E fails \in Faults("clear") : Clear(fails)
    \/ \E fails \in Faults("get_stats") : GetStats(fails)
    \/ Return
    \/ Tick

Spec == Init /\ [][Next]_vars

NextSetup == Construct

SpecSetup == InitSetup /\ [][NextSetup]_vars

(***************************************************************************)
(* Properties.                                                             *)
(***************************************************************************)
AllOk == [i \in 1..Len(backends) |-> "ok"]

\* This step is a get(key) in which no backend met a fault.
FaultFreeGetStep ==
    /\ last'.op = "get"
    /\ LET r == ManagerGet(store, last'.key, now, AllOk)
       IN  last'.entry = r.entry /\ last'.calls = r.calls /\ store' = r.store

\* C1: whenever set(k, p), called without a ttl, has returned true, a get(k)
\* issued immediately afterwards (no time passes, no backend is at fault
\* during the get) returns an entry whose payload is p, whatever the
\* backends held before and whichever of them rejected or failed the write.
C1_SetThenGetReturnsPayload ==
    [][(/\ last.op = "set"
        /\ last.ok
        /\ ~last.ttl.given
        /\ FaultFreeGetStep
        /\ last'.key = last.key)
       => (last'.entry # None /\ last'.entry[1].data = last.data)]_vars

\* C2: an entry returned by CacheManager.get never has an expires_at that
\* lies before the time of the call, whichever backend served it.
C2_GetNeverReturnsExpired ==
    (last.op = "get" /\ last.entry # None /\ last.entry[1].expires_at # None)
    => last.entry[1].expires_at[1] >= now

\* A get issued at the very instant an entry expires still returns it.
C2_Witness ==
    /\ last.op = "get"
    /\ last.entry # None
    /\ last.entry[1].expires_at = Some(now)
    /\ now > last.entry[1].created_at

\* C3: set(k, p, ttl) with ttl = 0 or negative returns false and leaves no
\* entry that a get(k) can read in any backend.
C3_NonPositiveTtlRejected ==
    (/\ last.op = "set"
     /\ ~last.raised
     /\ last.ttl.given
     /\ last.ttl.secs <= 0)
    => (/\ ~last.ok
        /\ ManagerGet(store, last.key, now, AllOk).entry = None)

\* C4: with a single local backend configured with default_ttl = d, a get
\* that immediately follows set(k, p) without a ttl returns p, and an entry
\* stored without expires_at is no longer returned once d has elapsed since
\* it was created.
C4_LocalDefaultTtlApplied ==
    [][(backends = <<"local">> /\ last'.op = "get")
       => (/\ (/\ last.op = "set"
               /\ last.ok
               /\ ~last.ttl.given
               /\ FaultFreeGetStep
               /\ last'.key = last.key)
              => (last'.entry # None /\ last'.entry[1].data = last.data)
           /\ (last'.entry # None /\ last'.entry[1].expires_at = None)
              => now' < last'.entry[1].created_at
                           + DefaultTtl * TicksPerSecond)]_vars

Min(S) == CHOOSE x \in S : \A y \in S : x <= y

\* C5: get(k) returns the entry of the lowest-index backend whose get(k)
\* yields an entry; backends that miss, hold only an expired or unreadable
\* entry, or fail are skipped in order, and get returns absent only when no
\* backend yields an entry.
C5_GetReturnsFirstHit ==
    [][last'.op = "get"
       => \E f \in Faults("get") :
             LET yield(i) ==
                     BackendGet(backends[i], store[i][last'.key], now, f[i]).ret
                 hits == {i \in 1..Len(backends) : yield(i) # None}
             IN  IF hits = {}
                 THEN /\ last'.entry = None
                      /\ last'.calls = [i \in 1..Len(backends) |-> None]
                 ELSE /\ last'.entry = yield(Min(hits))
                      /\ last'.calls = [i \in 1..Min(hits) |-> yield(i)]]_vars

\* The second backend served the hit although the first one holds
\* something for the key (unreadable, or out of reach during the call).
C5_Witness ==
    /\ last.op = "get"
    /\ Len(last.calls) = 2
    /\ last.calls[1] = None
    /\ last.entry # None
    /\ store[1][last.key] # None

\* C6: get(k) never writes to a backend: the only change it makes to any
\* backend is the removal of an expired entry for k, so a backend tried
\* before the one that served the hit lacks k afterwards as it did before.
C6_GetWritesNothing ==
    [][last'.op = "get"
       => \A i \in 1..Len(backends) : \A k \in keys :
             \/ store'[i][k] = store[i][k]
             \/ /\ k = last'.key
                /\ store'[i][k] = None
                /\ store[i][k] # None
                /\ store[i][k][1].expires_at # None
                /\ store[i][k][1].expires_at[1] < now]_vars

\* A hit served by the second backend, the first one still without the key.
C6_Witness ==
    /\ last.op = "get"
    /\ Len(last.calls) = 2
    /\ last.entry # None
    /\ store[1][last.key] = None

\* C7: set(k, p) builds one entry and calls set exactly once on every
\* backend, after successes and failures alike, and returns true exactly
\* when at least one of these calls returned true.
C7_SetFansOutToAll ==
    [][(last'.op = "set" /\ ~last'.raised)
       => \E f \in Faults("set") :
             LET entry == CacheEntry(last'.data, now, ExpiresAt(last'.ttl, now))
                 r(i) == BackendSet(backends[i], store[i][last'.key], entry,
                                    now', f[i])
             IN  /\ Len(last'.calls) = Len(backends)
                 /\ \A i \in 1..Len(backends) :
                       /\ last'.calls[i] = r(i).ret
                       /\ store'[i] = [store[i] EXCEPT ![last'.key] = r(i).cell]
                 /\ last'.ok = (\E i \in 1..Len(backends) : last'.calls[i])]_vars

\* The first backend accepted the write, the second was still called and
\* failed, and set returned true.
C7_Witness ==
    /\ last.op = "set"
    /\ last.calls = <<TRUE, FALSE>>
    /\ last.ok

\* C8: no CacheManager operation raises an exception, whatever the
\* configuration, the arguments and the faults of the backends.
C8_NoOperationRaises == phase # "raised" /\ ~last.raised

\* C9: with no active backend get returns absent and set, delete, exists
\* and clear each return false.
C9_ZeroBackendsReturnFalse ==
    (phase = "constructed" /\ backends = <<>> /\ ~last.raised)
    => (/\ last.op = "get" => last.entry = None
        /\ last.op \in {"set", "delete", "exists", "clear"} => ~last.ok)

\* The configured backend i can be constructed.
Constructible(i) ==
    /\ config[i].type # None
    /\ \/ config[i].type[1] = "redis" /\ REDIS_AVAILABLE
       \/ config[i].type[1] = "s3" /\ BOTO3_AVAILABLE /\ config[i].bucket_name
       \/ config[i].type[1] = "local" /\ config[i].writable

\* C10: after construction the active backends are exactly the configured
\* backends whose construction succeeded, in their configured order; one
\* that fails or has an unknown type does not keep later ones out.
C10_ActiveBackendsAreConstructible ==
    phase = "constructed"
    => LET good == {i \in 1..Len(config) : Constructible(i)}
           rank(i) == Cardinality({j \in good : j <= i})
       IN  /\ Len(backends) = Cardinality(good)
           /\ \A i \in good : backends[rank(i)] = config[i].type[1]

\* The first configured backend could not be built and the second is active.
C10_Witness ==
    /\ phase = "constructed"
    /\ Len(config) = 2
    /\ ~Constructible(1)
    /\ Len(backends) = 1
    /\ backends[1] = config[2].type[1]

\* What backend i really holds for a key at time t: the Redis server has
\* dropped a key whose SETEX time has run out.
Holds(kind, cell, t) ==
    IF kind = "redis" THEN RedisLive(cell, t) ELSE cell # None

\* C13: for every backend variant, delete(k) returns true if and only if an
\* entry for k was stored at the time of the call and has been removed;
\* delete of a key that is not stored returns false.
C13_BackendDeleteTrueIffRemoved ==
    [][last'.op = "delete"
       => \A i \in 1..Len(backends) :
             last'.calls[i] = (/\ Holds(backends[i], store[i][last'.key], now)
                               /\ store'[i][last'.key] = None)]_vars

\* C14: CacheManager.delete(k) calls delete once on every backend, after a
\* success and after a failure alike, and returns true exactly when at
\* least one of these calls returned true.
C14_DeleteFansOutToAll ==
    [][last'.op = "delete"
       => \E f \in Faults("delete") :
             LET r(i) == BackendDelete(backends[i], store[i][last'.key], now,
                                       f[i])
             IN  /\ Len(last'.calls) = Len(backends)
                 /\ \A i \in 1..Len(backends) :
                       /\ last'.calls[i] = r(i).ret
                       /\ store'[i] = [store[i] EXCEPT ![last'.key] = r(i).cell]
                 /\ last'.ok = (\E i \in 1..Len(backends) : last'.calls[i])]_vars

\* The first backend removed the key; the second was still called, could
\* not be reached and keeps its entry; delete returned true.
C14_Witness ==
    /\ last.op = "delete"
    /\ last.calls = <<TRUE, FALSE>>
    /\ last.ok
    /\ store[1][last.key] = None
    /\ store[2][last.key] # None

\* C15: CacheManager.clear() calls clear once on every backend, going on
\* past the ones that fail, and returns true exactly when every one of
\* these calls returned true.
C15_ClearFansOutToAll ==
    [][last'.op = "clear"
       => \E f \in Faults("clear") :
             LET r(i) == BackendClear(backends[i], store[i], f[i])
             IN  /\ Len(last'.calls) = Len(backends)
                 /\ \A i \in 1..Len(backends) :
                       /\ last'.calls[i] = r(i).ret
                       /\ store'[i] = r(i).cells
                 /\ last'.ok = (\A i \in 1..Len(backends) : last'.calls[i])]_vars

\* The first backend failed and keeps its entry, the second was cleared
\* all the same, and clear returned false.
C15_Witness ==
    /\ last.op = "clear"
    /\ last.calls = <<FALSE, TRUE>>
    /\ ~last.ok
    /\ \E k \in keys : store[1][k] # None
    /\ \A k \in keys : store[2][k] = None

\* C16: get_stats() never raises and returns total_backends equal to the
\* number of active backends and one record per active backend in the
\* configured order, each naming its backend; a backend that cannot be
\* reached is present with its error record.
C16_StatsOneRecordPerBackend ==
    last.op = "get_stats"
    => /\ ~last.raised
       /\ last.total_backends = Len(backends)
       /\ Len(last.calls) = Len(backends)
       /\ \A i \in 1..Len(backends) : last.calls[i].backend = backends[i]

\* Two backends, the second out of reach: two records, the second one
\* carrying the error.
C16_Witness ==
    /\ last.op = "get_stats"
    /\ last.total_backends = 2
    /\ Len(last.calls) = 2
    /\ ~last.calls[1].error
    /\ last.calls[2].error

\* C19: for every backend variant, set(entry) with expires_at present and
\* expires_at - now <= 0 returns false and the backend does not hold the
\* entry afterwards.
C19_BackendRejectsElapsedEntry ==
    [][(/\ last'.op = "set"
        /\ ~last'.raised
        /\ ExpiresAt(last'.ttl, now) # None
        /\ ExpiresAt(last'.ttl, now)[1] - now' <= 0)
       => \A i \in 1..Len(backends) :
             LET cell == store'[i][last'.key]
                 entry == CacheEntry(last'.data, now, ExpiresAt(last'.ttl, now))
             IN  /\ ~last'.calls[i]
                 /\ ~(/\ cell # None
                      /\ cell[1].readable
                      /\ from_dict(cell[1]) = entry)]_vars

\* C20: once the expiration time of every entry stored for k has passed
\* (each of them stored with an expiration time later than its creation),
\* exists(k) returns false, whether or not a get(k) was issued since.
C20_ExistsFalseAfterExpiry ==
    (/\ last.op = "exists"
     /\ \A i \in 1..Len(backends) :
           LET cell == store[i][last.key]
           IN  cell # None => (/\ cell[1].expires_at # None
                               /\ cell[1].expires_at[1] > cell[1].created_at
                               /\ cell[1].expires_at[1] < now))
    => ~last.ok

(***************************************************************************)
(* Key derivation.  Identifiers and keys are strings; the four generators  *)
(* build theirs by the concatenation that the f-strings perform.           *)
(***************************************************************************)
MaxIdLen == 2
MaxDerived == 2

\* The characters identifiers are made of: an ordinary one and the one the
\* generators use as separator.
IdChars == {"x", ":"}

RECURSIVE StringsOfLen(_, _)
StringsOfLen(chars, n) ==
    IF n = 0 THEN {""}
    ELSE {c \o w : c \in chars, w \in StringsOfLen(chars, n - 1)}

Identifiers == UNION {StringsOfLen(IdChars, n) : n \in 1..MaxIdLen}

generate_build_cache_key(repo_name, commit_hash, build_type) ==
    "build:" \o repo_name \o ":" \o commit_hash \o ":" \o build_type

generate_binding_cache_key(repo_name, generator, commit_hash) ==
    "binding:" \o repo_name \o ":" \o generator \o ":" \o commit_hash

generate_dependency_cache_key(dependency_name, version) ==
    "dep:" \o dependency_name \o ":" \o version

generate_file_hash_cache_key(file_path) == "hash:" \o file_path

Derivation(fn, args, key) == [fn |-> fn, args |-> args, key |-> key]

InitKeys ==
    /\ config = <<>>
    /\ REDIS_AVAILABLE = TRUE
    /\ BOTO3_AVAILABLE = TRUE
    /\ phase = "constructed"
    /\ backends = <<>>
    /\ keys = {}
    /\ store = <<>>
    /\ now = 0
    /\ last = NoCall
    /\ NothingOutside

KeysFrame ==
    UNCHANGED <<config, REDIS_AVAILABLE, BOTO3_AVAILABLE, phase, backends,
                store, now, keys, last, prefix, server, fs, tmpfiles,
                threads>>

\* A caller derives one more key and keeps it with the others.
DeriveBuild(repo_name, commit_hash, build_type) ==
    /\ Cardinality(derived) < MaxDerived
    /\ derived' = derived \cup
          {Derivation("build", <<repo_name, commit_hash, build_type>>,
              generate_build_cache_key(repo_name, commit_hash, build_type))}
    /\ KeysFrame

DeriveBinding(repo_name, generator, commit_hash) ==
    /\ Cardinality(derived) < MaxDerived
    /\ derived' = derived \cup
          {Derivation("binding", <<repo_name, generator, commit_hash>>,
              generate_binding_cache_key(repo_name, generator, commit_hash))}
    /\ KeysFrame

DeriveDependency(dependency_name, version) ==
    /\ Cardinality(derived) < MaxDerived
    /\ derived' = derived \cup
          {Derivation("dep", <<dependency_name, version>>,
              generate_dependency_cache_key(dependency_name, version))}
    /\ KeysFrame

DeriveFileHash(file_path) ==
    /\ Cardinality(derived) < MaxDerived
    /\ derived' = derived \cup
          {Derivation("hash", <<file_path>>,
              generate_file_hash_cache_key(file_path))}
    /\ KeysFrame

NextKeys ==
    \/ \E r \in Identifiers, c \in Identifiers, b \in Identifiers :
          DeriveBuild(r, c, b)
    \/ \E r \in Identifiers, g \in Identifiers, c \in Identifiers :
          DeriveBinding(r, g, c)
    \/ \E d \in Identifiers, v \in Identifiers : DeriveDependency(d, v)
    \/ \E f \in Identifiers : DeriveFileHash(f)

SpecKeys == InitKeys /\ [][NextKeys]_vars

\* C11: key derivation is injective: two derivations that yield the same
\* key string come from the same generator applied to the same tuple of
\* identifiers, for identifiers that may contain the ':' separator.
C11_KeyDerivationInjective ==
    \A d1 \in derived : \A d2 \in derived :
        d1.key = d2.key => (d1.fn = d2.fn /\ d1.args = d2.args)

(***************************************************************************)
(* A store shared by several namespaces.  A Redis server or an S3 bucket   *)
(* holds names; a backend stores its entries under prefix + key, and so    *)
(* does any other backend configured with the same server or bucket and    *)
(* another prefix.  Names, prefixes and keys are sequences of characters,  *)
(* so that the pattern matching of the Redis KEYS command can be computed. *)
(***************************************************************************)
MaxPrefixLen == 1

\* The characters a configured prefix is made of; '?' is one of the
\* characters the KEYS command reads as a wildcard.
PrefixChars == {"a", "b", "?"}

Prefixes == UNION {[1..n -> PrefixChars] : n \in 1..MaxPrefixLen}

LogicalKeys == {<<"k">>, <<"a">>}

_make_key(pfx, key) == pfx \o key

\* s starts with pfx, character by character: list_objects_v2(Prefix=pfx).
StartsWith(s, pfx) ==
    /\ Len(s) >= Len(pfx)
    /\ \A i \in 1..Len(pfx) : s[i] = pfx[i]

\* The glob-style matching of the Redis KEYS command: '*' matches any run
\* of characters, '?' any single character, any other character itself.
RECURSIVE GlobMatch(_, _)
GlobMatch(pattern, s) ==
    IF pattern = <<>> THEN s = <<>>
    ELSE IF Head(pattern) = "*"
         THEN \/ GlobMatch(Tail(pattern), s)
              \/ s # <<>> /\ GlobMatch(pattern, Tail(s))
    ELSE IF s = <<>> THEN FALSE
    ELSE IF Head(pattern) = "?" THEN GlobMatch(Tail(pattern), Tail(s))
    ELSE Head(pattern) = Head(s) /\ GlobMatch(Tail(pattern), Tail(s))

\* The names clear() selects for deletion.
RedisClearSelects(pfx, names) ==
    {n \in names : GlobMatch(pfx \o <<"*">>, n)}

S3ClearSelects(pfx, names) == {n \in names : StartsWith(n, pfx)}

ClearSelects(kind, pfx, names) ==
    CASE kind = "redis" -> RedisClearSelects(pfx, names)
      [] kind = "s3"    -> S3ClearSelects(pfx, names)

InitShared ==
    /\ \E kind \in {"redis", "s3"} :
          /\ config = <<BackendConfig(Some(kind), TRUE, TRUE)>>
          /\ backends = <<kind>>
    /\ REDIS_AVAILABLE = TRUE
    /\ BOTO3_AVAILABLE = TRUE
    /\ phase = "constructed"
    /\ keys = LogicalKeys
    /\ store = <<>>
    /\ now = 0
    /\ last = NoCall
    /\ derived = {}
    /\ prefix \in Prefixes
    /\ server = {}
    /\ fs = <<>>
    /\ tmpfiles = {}
    /\ threads = <<>>

SharedFrame ==
    UNCHANGED <<config, REDIS_AVAILABLE, BOTO3_AVAILABLE, phase, backends,
                store, now, keys, derived, prefix, fs, tmpfiles,
                threads>>

\* backend.set(entry): setex / put_object under prefix + key.
SharedSet(key, fail) ==
    /\ server' = IF fail = "ok" THEN server \cup {_make_key(prefix, key)}
                 ELSE server
    /\ last' = [Call("set", key) EXCEPT !.calls = <<fail = "ok">>,
                                        !.ok = (fail = "ok")]
    /\ SharedFrame

\* A backend of another namespace of the same server writes one of its keys.
OtherSet(pfx, key) ==
    /\ pfx # prefix
    /\ server' = server \cup {_make_key(pfx, key)}
    /\ last' = [Call("set", key) EXCEPT !.calls = <<TRUE>>, !.ok = TRUE]
    /\ SharedFrame

\* backend.clear(): list the names, then delete them in one request.
SharedClear(fail) ==
    /\ server' = IF fail = "ok"
                 THEN server \ ClearSelects(backends[1], prefix, server)
                 ELSE server
    /\ last' = [Call("clear", <<>>) EXCEPT !.calls = <<fail = "ok">>,
                                            !.ok = (fail = "ok")]
    /\ SharedFrame

NextShared ==
    \/ \E key \in keys, fail \in {"ok", "err"} : SharedSet(key, fail)
    \/ \E pfx \in Prefixes, key \in keys : OtherSet(pfx, key)
    \/ \E fail \in {"ok", "err"} : SharedClear(fail)

SpecShared == InitShared /\ [][NextShared]_vars

\* C12: a clear() that returns true removes every name that starts with
\* the backend's prefix and no other: the names of the same server or
\* bucket that do not start with the prefix are all still present
\* afterwards, whatever the configured prefix string is.
C12_ClearStaysInsidePrefix ==
    [][(last'.op = "clear" /\ last'.ok)
       => server' = {n \in server : ~StartsWith(n, prefix)}]_vars

(***************************************************************************)
(* The directory archiver.  fs maps each directory that exists to its      *)
(* tree: the bytes of the file at each relative path under it.  An         *)
(* archive records the name of its top-level entry and the tree packed     *)
(* under it; the payload of the cache entry is the archive file's bytes.   *)
(***************************************************************************)
MaxTmpFiles == 2

Parents == {"/w", "/v"}
DirNames == {"d", "e"}

JoinPath(parent, name) == parent \o "/" \o name

Directories == {JoinPath(p, n) : p \in Parents, n \in DirNames}

\* os.path.basename and os.path.dirname of a directory path.
basename(path) ==
    CHOOSE n \in DirNames : \E p \in Parents : JoinPath(p, n) = path

dirname(path) ==
    CHOOSE p \in Parents : \E n \in DirNames : JoinPath(p, n) = path

RelPaths == {"f", "s/g"}
Bytes == {"0", "1"}
Trees == UNION {[paths -> Bytes] : paths \in SUBSET RelPaths}

EmptyTree == <<>>

Archives == [arcname : DirNames, files : Trees]

\* ttl=86400 of cache_directory_contents.
ArchiveTtl == Ttl(86400)

\* The bytes of an archive file: the top-level name, then one member per
\* file with its path and its bytes.
TarBytes(archive) ==
    LET member(rel) ==
            IF rel \in DOMAIN archive.files
            THEN "|" \o rel \o "=" \o archive.files[rel]
            ELSE ""
    IN  archive.arcname \o member("f") \o member("s/g")

\* tarfile.open(name, "r:gz"): the archive these bytes are the file of.
IsTar(data) == \E a \in Archives : TarBytes(a) = data

Untar(data) == CHOOSE a \in Archives : TarBytes(a) = data

\* tar.add(directory, arcname=os.path.basename(directory))
Pack(directory, tree) ==
    TarBytes([arcname |-> basename(directory), files |-> tree])

\* tar.extractall(path): the members land under path/arcname, over the
\* files that are already there.
Extract(files, path, archive) ==
    LET into == JoinPath(path, archive.arcname)
        old == IF into \in DOMAIN files THEN files[into] ELSE EmptyTree
        new == [rel \in DOMAIN old \cup DOMAIN archive.files |->
                   IF rel \in DOMAIN archive.files THEN archive.files[rel]
                   ELSE old[rel]]
    IN  [d \in DOMAIN files \cup {into} |-> IF d = into THEN new ELSE files[d]]

\* A restore that does not create the target directory.
MakeDirsSkipped(files, target) == files

\* os.makedirs(target_directory, exist_ok=True)
MakeDirs(files, target) ==
    [d \in DOMAIN files \cup {target} |->
        IF d \in DOMAIN files THEN files[d] ELSE EmptyTree]

\* tempfile.NamedTemporaryFile(delete=False): a name not in use.
NewTmp == Cardinality(tmpfiles) + 1

\* What the file system does to one call: "tmp_err" no temporary file can
\* be created, "mkdir_err" the target cannot be created, "pack_err" the
\* directory cannot be packed, "read_err" the archive cannot be read back,
\* "extract_err" the bytes cannot be extracted.
CacheIo == {"ok", "tmp_err", "pack_err", "read_err"}
RestoreIo == {"ok", "mkdir_err", "tmp_err", "extract_err"}

InitArchive ==
    /\ config \in SeqsUpTo(UsableEntries, 1)
    /\ REDIS_AVAILABLE = TRUE
    /\ BOTO3_AVAILABLE = TRUE
    /\ phase = "constructed"
    /\ backends = _setup_backends(config).backends
    /\ keys = {"a"}
    /\ store = EmptyStore(backends)
    /\ now = 0
    /\ last = NoCall
    /\ derived = {}
    /\ prefix = <<>>
    /\ server = {}
    /\ \E directory \in Directories, tree \in Trees :
          fs = [d \in {directory} |-> tree]
    /\ tmpfiles = {}
    /\ threads = <<>>

ArchiveFrame ==
    UNCHANGED <<config, REDIS_AVAILABLE, BOTO3_AVAILABLE, phase, backends,
                now, keys, derived, prefix, server, threads>>

ArchiveCall(op, key, directory, ok) ==
    [Call(op, key) EXCEPT !.data = directory, !.ok = ok]

\* cache_directory_contents(cache_manager, directory, cache_key)
CacheDirectory(directory, key, io, fails) ==
    /\ Cardinality(tmpfiles) < MaxTmpFiles
    /\ IF io = "tmp_err"
       THEN /\ tmpfiles' = tmpfiles
            /\ store' = store
            /\ last' = ArchiveCall("cache_directory", key, directory, FALSE)
       ELSE IF directory \notin DOMAIN fs \/ io \in {"pack_err", "read_err"}
       THEN /\ tmpfiles' = tmpfiles \cup {NewTmp}
            /\ store' = store
            /\ last' = ArchiveCall("cache_directory", key, directory, FALSE)
       ELSE LET archive_data == Pack(directory, fs[directory])
                r == ManagerSet(store, key, archive_data, ArchiveTtl,
                                now, now, fails)
            IN  /\ tmpfiles' = tmpfiles
                /\ store' = r.store
                /\ last' = ArchiveCall("cache_directory", key, directory, r.ok)
    /\ fs' = fs
    /\ ArchiveFrame

\* restore_directory_contents(cache_manager, cache_key, target_directory)
RestoreDirectory(key, target, io, fails) ==
    /\ Cardinality(tmpfiles) < MaxTmpFiles
    /\ LET r == ManagerGet(store, key, now, fails)
       IN  /\ store' = r.store
           /\ IF r.entry = None \/ io = "mkdir_err"
              THEN /\ fs' = fs
                   /\ tmpfiles' = tmpfiles
                   /\ last' = ArchiveCall("restore_directory", key, target,
                                          FALSE)
              ELSE IF io = "tmp_err"
              THEN /\ fs' = MakeDirs(fs, target)
                   /\ tmpfiles' = tmpfiles
                   /\ last' = ArchiveCall("restore_directory", key, target,
                                          FALSE)
              ELSE IF io = "extract_err" \/ ~IsTar(r.entry[1].data)
              THEN /\ fs' = MakeDirs(fs, target)
                   /\ tmpfiles' = tmpfiles \cup {NewTmp}
                   /\ last' = ArchiveCall("restore_directory", key, target,
                                          FALSE)
              ELSE /\ fs' = Extract(MakeDirs(fs, target), dirname(target),
                                    Untar(r.entry[1].data))
                   /\ tmpfiles' = tmpfiles
                   /\ last' = ArchiveCall("restore_directory", key, target,
                                          TRUE)
    /\ ArchiveFrame

NextArchive ==
    \/ \E directory \in Directories, key \in keys, io \in CacheIo,
          fails \in Faults("set") : CacheDirectory(directory, key, io, fails)
    \/ \E key \in keys, target \in Directories, io \in RestoreIo,
          fails \in Faults("get") : RestoreDirectory(key, target, io, fails)

SpecArchive == InitArchive /\ [][NextArchive]_vars

\* C17: cache_directory(mgr, dir, k) that returned true, followed at once
\* by restore_directory(mgr, k, dir2) with no fault of the file system or
\* of a backend, returns true and leaves under dir2 exactly the relative
\* file paths and byte contents of dir, for any dir and any dir2.
C17_DirectoryRoundTrip ==
    [][\A dir2 \in Directories :
          (/\ last.op = "cache_directory"
           /\ last.ok
           /\ RestoreDirectory(last.key, dir2, "ok", AllOk))
          => (/\ last'.ok
              /\ dir2 \in DOMAIN fs'
              /\ fs'[dir2] = fs[last.data])]_vars

\* C18: cache_directory leaves no temporary archive file behind, whether
\* packing, reading the archive back or manager.set succeeds or fails: the
\* temporary files that exist after the call existed before it.
C18_CacheDirectoryRemovesTmp ==
    [][last'.op = "cache_directory" => tmpfiles' \subseteq tmpfiles]_vars

\* C21: restore_directory returns false on a cache miss without creating
\* the target; on a hit it creates the target and extracts the archive into
\* the parent of the target, so that the restored files are found at
\* parent(target)/name, where name is the top-level entry of the archive:
\* the basename of the directory that was cached.
C21_RestoreExtractsIntoParent ==
    [][/\ (last'.op = "cache_directory" /\ last'.ok)
          => \E i \in 1..Len(backends) :
                LET cell == store'[i][last'.key]
                IN  /\ cell # None
                    /\ cell[1].readable
                    /\ IsTar(cell[1].data)
                    /\ Untar(cell[1].data) =
                          [arcname |-> basename(last'.data),
                           files |-> fs[last'.data]]
       /\ (/\ last'.op = "restore_directory"
           /\ RestoreDirectory(last'.key, last'.data, "ok", AllOk))
          => LET target == last'.data
                 r == ManagerGet(store, last'.key, now, AllOk)
             IN  IF r.entry = None
                 THEN ~last'.ok /\ fs' = fs
                 ELSE LET a == Untar(r.entry[1].data)
                          into == JoinPath(dirname(target), a.arcname)
                      IN  /\ last'.ok
                          /\ target \in DOMAIN fs'
                          /\ into \in DOMAIN fs'
                          /\ \A rel \in DOMAIN a.files :
                                /\ rel \in DOMAIN fs'[into]
                                /\ fs'[into][rel] = a.files[rel]]_vars

\* A restore into a target whose name differs from that of the cached
\* directory: the target exists and is empty, and the files of the cached
\* directory, which lies under another parent, are found next to it.
C21_Witness ==
    /\ last.op = "restore_directory"
    /\ last.ok
    /\ last.data \in DOMAIN fs
    /\ fs[last.data] = EmptyTree
    /\ \E into \in DOMAIN fs : \E origin \in DOMAIN fs :
          /\ into # last.data
          /\ dirname(into) = dirname(last.data)
          /\ dirname(origin) # dirname(into)
          /\ basename(origin) = basename(into)
          /\ fs[into] # EmptyTree
          /\ fs[into] = fs[origin]

\* The backend holds for the key an entry it can read whose expiration
\* time has passed at time t.
ExpiredHeld(kind, cell, t) ==
    /\ Holds(kind, cell, t)
    /\ cell[1].readable
    /\ cell[1].expires_at # None
    /\ cell[1].expires_at[1] < t

FaultFreeSetStep ==
    /\ last'.op = "set"
    /\ ~last'.raised
    /\ LET r == ManagerSet(store, last'.key, last'.data, last'.ttl, now, now',
                           AllOk)
       IN  last'.calls = r.calls /\ store' = r.store

\* C27: a failed write has no side effects: whenever the set of a backend
\* returns false (rejected TTL, serialization failure, transport error),
\* what that backend stores for the key is unchanged.
C27_FailedSetChangesNothing ==
    [][(last'.op = "set" /\ ~last'.raised)
       => \A i \in 1..Len(backends) :
             ~last'.calls[i] => store'[i][last'.key] = store[i][last'.key]]_vars

\* C28: after CacheManager.delete(k) has returned true, a get(k) that
\* follows at once returns absent and exists(k) returns false, whatever
\* the backends are and whatever each backend's delete returned.
C28_DeletedKeyIsGone ==
    (last.op = "delete" /\ last.ok)
    => (/\ ManagerGet(store, last.key, now, AllOk).entry = None
        /\ ~ManagerExists(store, last.key, now, AllOk).ok)

\* C29: the Redis backend accepts every write whose remaining lifetime
\* expires_at - now is strictly positive, a lifetime of less than a second
\* and the one left of ttl = 1 included.
C29_RedisAcceptsPositiveLifetime ==
    [][FaultFreeSetStep
       => \A i \in 1..Len(backends) :
             LET expires_at == ExpiresAt(last'.ttl, now)
             IN  (/\ backends[i] = "redis"
                  /\ expires_at # None
                  /\ expires_at[1] - now' > 0)
                 => last'.calls[i]]_vars

(***************************************************************************)
(* One backend called directly, with entries the caller has built itself:  *)
(* created_at and expires_at are whatever the caller put into the entry.   *)
(***************************************************************************)
Stamps == 0..MaxTime

Entries ==
    {CacheEntry(data, created_at, expires_at) :
        data \in Payloads, created_at \in Stamps,
        expires_at \in {None} \cup {Some(t) : t \in Stamps}}

InitBackend ==
    /\ config \in {<<c>> : c \in UsableEntries}
    /\ REDIS_AVAILABLE = TRUE
    /\ BOTO3_AVAILABLE = TRUE
    /\ phase = "constructed"
    /\ backends = _setup_backends(config).backends
    /\ keys = {"a"}
    /\ store = EmptyStore(backends)
    /\ now = 0
    /\ last = NoCall
    /\ NothingOutside

\* backend.set(entry)
DirectSet(key, entry, fail) ==
    /\ Idle
    /\ LET r == BackendSet(backends[1], store[1][key], entry, now, fail)
       IN  /\ store' = [store EXCEPT ![1][key] = r.cell]
           /\ last' = [Call("set", key) EXCEPT !.data = entry.data,
                                               !.calls = <<r.ret>>,
                                               !.ok = r.ret]
    /\ UNCHANGED now
    /\ Frame

\* backend.get(key)
DirectGet(key, fail) ==
    /\ Idle
    /\ LET r == BackendGet(backends[1], store[1][key], now, fail)
       IN  /\ store' = [store EXCEPT ![1][key] = r.cell]
           /\ last' = [Call("get", key) EXCEPT !.calls = <<r.ret>>,
                                               !.entry = r.ret]
    /\ UNCHANGED now
    /\ Frame

NextBackend ==
    \/ \E key \in keys, entry \in Entries,
          fail \in FailModes(backends[1], "set") : DirectSet(key, entry, fail)
    \/ \E key \in keys, fail \in FailModes(backends[1], "get") :
          DirectGet(key, fail)
    \/ Return
    \/ Tick

SpecBackend == InitBackend /\ [][NextBackend]_vars

\* C23: every entry returned by get has expires_at absent or strictly
\* later than its created_at: an entry stored with expires_at <= created_at
\* counts as expired already and is never returned.
C23_ReturnedEntryExpiresAfterCreation ==
    (last.op = "get" /\ last.entry # None /\ last.entry[1].expires_at # None)
    => last.entry[1].expires_at[1] > last.entry[1].created_at

(***************************************************************************)
(* Several keys in one backend.  A backend keeps the entry of a key under  *)
(* a name of its own: the local backend in the file named by the MD5       *)
(* digest of the key, Redis and S3 under prefix + key.  In this            *)
(* specification store[1] maps these names, not the keys, to what is held. *)
(***************************************************************************)
KeyA == "a"
KeyT1 ==
    "TEXTCOLLBYfGiJUETHQ4hAcKSMd5zYpgqf1YRDhkmxHkhPWptrkoyz28wnI9V0aHeAuaKnak"
KeyT2 ==
    "TEXTCOLLBYfGiJUETHQ4hEcKSMd5zYpgqf1YRDhkmxHkhPWptrkoyz28wnI9V0aHeAuaKnak"

SeveralKeys == {KeyA, KeyT1, KeyT2}

\* hashlib.md5(key.encode()).hexdigest() of the keys above.
md5(key) ==
    CASE key = KeyA  -> "0cc175b9c0f1b6a831c399e269772661"
      [] key = KeyT1 -> "faad49866e9498fc1719f5289e7a0269"
      [] key = KeyT2 -> "faad49866e9498fc1719f5289e7a0269"

_get_cache_path(key) == md5(key) \o ".cache"

DefaultPrefix(kind) ==
    IF kind = "redis" THEN "universal_recycle:" ELSE "universal_recycle/"

\* The name under which a backend of this kind keeps the entry of the key.
StoredName(kind, key) ==
    IF kind = "local" THEN _get_cache_path(key)
    ELSE DefaultPrefix(kind) \o key

InitNames ==
    /\ config \in {<<c>> : c \in UsableEntries}
    /\ REDIS_AVAILABLE = TRUE
    /\ BOTO3_AVAILABLE = TRUE
    /\ phase = "constructed"
    /\ backends = _setup_backends(config).backends
    /\ keys = SeveralKeys
    /\ store = <<[n \in {StoredName(backends[1], k) : k \in SeveralKeys}
                    |-> None]>>
    /\ now = 0
    /\ last = NoCall
    /\ NothingOutside

NamedGet(key, fails) ==
    /\ Idle
    /\ LET r == ManagerGet(store, StoredName(backends[1], key), now, fails)
       IN  /\ store' = r.store
           /\ last' = [Call("get", key) EXCEPT !.calls = r.calls,
                                               !.entry = r.entry]
    /\ UNCHANGED now
    /\ Frame

NamedSet(key, data, ttl, fails) ==
    /\ Idle
    /\ LET r == ManagerSet(store, StoredName(backends[1], key), data, ttl,
                           now, now, fails)
       IN  /\ store' = r.store
           /\ last' = [Call("set", key) EXCEPT !.data = data, !.ttl = ttl,
                                               !.calls = r.calls, !.ok = r.ok]
    /\ UNCHANGED now
    /\ Frame

NamedDelete(key, fails) ==
    /\ Idle
    /\ LET r == ManagerDelete(store, StoredName(backends[1], key), now, fails)
       IN  /\ store' = r.store
           /\ last' = [Call("delete", key) EXCEPT !.calls = r.calls,
                                                  !.ok = r.ok]
    /\ UNCHANGED now
    /\ Frame

NamedExists(key, fails) ==
    /\ Idle
    /\ LET r == ManagerExists(store, StoredName(backends[1], key), now, fails)
       IN  /\ store' = r.store
           /\ last' = [Call("exists", key) EXCEPT !.calls = r.calls,
                                                  !.ok = r.ok]
    /\ UNCHANGED now
    /\ Frame

NextNames ==
    \/ \E key \in keys, fails \in Faults("get") : NamedGet(key, fails)
    \/ \E key \in keys, data \in Payloads, ttl \in {NoTtl, Ttl(1)},
          fails \in Faults("set") : NamedSet(key, data, ttl, fails)
    \/ \E key \in keys, fails \in Faults("delete") : NamedDelete(key, fails)
    \/ \E key \in keys, fails \in Faults("exists") : NamedExists(key, fails)
    \/ Return
    \/ Tick

SpecNames == InitNames /\ [][NextNames]_vars

\* C30: get, set, delete and exists of a key k leave what the backend
\* holds for every other key k' as it was.
C30_OtherKeysUntouched ==
    [][last'.op \in {"get", "set", "delete", "exists"}
       => \A k \in keys \ {last'.key} :
             store'[1][StoredName(backends[1], k)]
                = store[1][StoredName(backends[1], k)]]_vars

(***************************************************************************)
(* Concurrent callers of one local backend.  Each thread makes one call    *)
(* of CacheManager.get or CacheManager.set at a time, and the calls run    *)
(* statement by statement: between the path.exists() test, the open, each  *)
(* write of pickle.dump, the load and the unlink, the other threads run.   *)
(* Nothing in the source holds a lock.                                     *)
(*                                                                         *)
(* In this specification store[1][k] is the cache file of key k: None when *)
(* there is no file, Some(content) when there is one, content being the    *)
(* sequence of the blocks written so far.  pickle.dump of an entry whose   *)
(* payload is larger than the file's buffer reaches the file as three      *)
(* blocks: what precedes the payload, the payload, and what follows it     *)
(* (created_at, expires_at, size_bytes, metadata), the last one when the   *)
(* file is closed.  Payloads of this specification are of that size and    *)
(* of equal length.                                                        *)
(***************************************************************************)
MaxThreads == 2
MaxCalls == 2    \* calls a thread makes

Threads == 1..MaxThreads

HeadBlock ==
    [part |-> "head", data |-> "", created_at |-> 0, expires_at |-> None]

DataBlock(entry) ==
    [part |-> "data", data |-> entry.data, created_at |-> 0,
     expires_at |-> None]

TailBlock(entry) ==
    [part |-> "tail", data |-> "", created_at |-> entry.created_at,
     expires_at |-> entry.expires_at]

\* The zero bytes that a write beyond the end of the file leaves before it.
Hole == [part |-> "hole", data |-> "", created_at |-> 0, expires_at |-> None]

\* pickle.dump(entry.to_dict(), f): the blocks in the order written.
Pickled(entry) == <<HeadBlock, DataBlock(entry), TailBlock(entry)>>

\* pickle.load(f) and CacheEntry.from_dict: the entry, or None where
\* pickle.load raises (a file that is empty, cut short or has a hole).
Unpickled(content) ==
    IF /\ Len(content) = Len(Pickled(CacheEntry("", 0, None)))
       /\ content[1].part = "head"
       /\ content[2].part = "data"
       /\ content[3].part = "tail"
    THEN Some(CacheEntry(content[2].data, content[3].created_at,
                         content[3].expires_at))
    ELSE None

\* f.write(block) by a writer that has written pos blocks since its open.
WriteAt(content, pos, block) ==
    LET len == IF Len(content) > pos THEN Len(content) ELSE pos + 1
    IN  [i \in 1..len |->
            IF i = pos + 1 THEN block
            ELSE IF i <= Len(content) THEN content[i]
            ELSE Hole]

\* A thread that is not making a call, and has made none.
NoThread ==
    [op |-> "none", pc |-> "idle", calls |-> 0, entry |-> None, pos |-> 0,
     unlinked |-> FALSE, before |-> None, hit |-> None, ok |-> FALSE,
     with |-> {}]

Running(t) == threads[t].pc # "idle"

RaceKey == "a"

File == store[1][RaceKey]

InitRace ==
    /\ config = <<BackendConfig(Some("local"), FALSE, TRUE)>>
    /\ REDIS_AVAILABLE = TRUE
    /\ BOTO3_AVAILABLE = TRUE
    /\ phase = "constructed"
    /\ backends = _setup_backends(config).backends
    /\ keys = {RaceKey}
    /\ store = <<[k \in keys |-> None]>>
    /\ now = 0
    /\ last = NoCall
    /\ derived = {}
    /\ prefix = <<>>
    /\ server = {}
    /\ fs = <<>>
    /\ tmpfiles = {}
    /\ threads = [t \in Threads |-> NoThread]

RaceFrame ==
    UNCHANGED <<config, REDIS_AVAILABLE, BOTO3_AVAILABLE, phase, backends,
                keys, last, derived, prefix, server, fs, tmpfiles>>

\* Thread t enters a call; the calls in progress now run together with it.
Enter(t, rec) ==
    [u \in Threads |->
        IF u = t THEN [rec EXCEPT !.calls = threads[t].calls + 1,
                                  !.before = File,
                                  !.with = {v \in Threads \ {t} : Running(v)}]
        ELSE IF Running(u) THEN [threads[u] EXCEPT !.with = @ \cup {t}]
        ELSE threads[u]]

Leave(t, hit, ok) ==
    [threads EXCEPT ![t].pc = "idle", ![t].hit = hit, ![t].ok = ok]

\* CacheManager.set up to the call of backend.set: the entry is made.
SetBegin(t, data, ttl) ==
    /\ ~Running(t)
    /\ threads[t].calls < MaxCalls
    /\ threads' = Enter(t, [NoThread EXCEPT
                               !.op = "set", !.pc = "open",
                               !.entry = Some(CacheEntry(data, now,
                                                         ExpiresAt(ttl, now)))])
    /\ UNCHANGED <<store, now>>
    /\ RaceFrame

\* open(cache_path, "wb"): the file is created, or emptied if there is one.
SetOpen(t) ==
    /\ threads[t].pc = "open"
    /\ store' = [store EXCEPT ![1][RaceKey] = Some(<<>>)]
    /\ threads' = [threads EXCEPT ![t].pc = "write", ![t].pos = 0,
                                  ![t].unlinked = FALSE]
    /\ UNCHANGED now
    /\ RaceFrame

\* One write of pickle.dump, at the writer's own position in the file; the
\* last one is the flush of the close, after which set returns True.  A
\* writer whose file was unlinked writes to a file that has no name.
SetWrite(t) ==
    /\ threads[t].pc = "write"
    /\ LET blocks == Pickled(threads[t].entry[1])
           pos == threads[t].pos
       IN  /\ store' = IF threads[t].unlinked THEN store
                       ELSE [store EXCEPT ![1][RaceKey] =
                                Some(WriteAt(File[1], pos, blocks[pos + 1]))]
           /\ threads' = IF pos + 1 = Len(blocks)
                         THEN [Leave(t, None, TRUE) EXCEPT ![t].pos = pos + 1]
                         ELSE [threads EXCEPT ![t].pos = pos + 1]
    /\ UNCHANGED now
    /\ RaceFrame

\* CacheManager.get up to the call of backend.get.
GetBegin(t) ==
    /\ ~Running(t)
    /\ threads[t].calls < MaxCalls
    /\ threads' = Enter(t, [NoThread EXCEPT !.op = "get", !.pc = "exists"])
    /\ UNCHANGED <<store, now>>
    /\ RaceFrame

\* if not cache_path.exists(): return None
GetExists(t) ==
    /\ threads[t].pc = "exists"
    /\ threads' = IF File = None THEN Leave(t, None, FALSE)
                  ELSE [threads EXCEPT ![t].pc = "load"]
    /\ UNCHANGED <<store, now>>
    /\ RaceFrame

\* open(cache_path, "rb"), pickle.load and is_expired: an exception of the
\* open or of the load ends get with None; an expired entry goes to delete.
GetLoad(t) ==
    /\ threads[t].pc = "load"
    /\ LET entry == IF File = None THEN None ELSE Unpickled(File[1])
       IN  threads' =
              IF entry = None THEN Leave(t, None, FALSE)
              ELSE IF is_expired(entry[1], now)
              THEN [threads EXCEPT ![t].pc = "delete", ![t].entry = entry]
              ELSE [Leave(t, entry, TRUE) EXCEPT ![t].entry = entry]
    /\ UNCHANGED <<store, now>>
    /\ RaceFrame

\* self.delete(key): if cache_path.exists()
GetDeleteExists(t) ==
    /\ threads[t].pc = "delete"
    /\ threads' = IF File = None THEN Leave(t, None, FALSE)
                  ELSE [threads EXCEPT ![t].pc = "unlink"]
    /\ UNCHANGED <<store, now>>
    /\ RaceFrame

\* cache_path.unlink(), and get returns None.  The writers that have the
\* file open keep it, without its name.
GetUnlink(t) ==
    /\ threads[t].pc = "unlink"
    /\ store' = [store EXCEPT ![1][RaceKey] = None]
    /\ threads' = [u \in Threads |->
                      IF u = t THEN Leave(t, None, FALSE)[t]
                      ELSE IF threads[u].pc = "write" /\ File # None
                      THEN [threads[u] EXCEPT !.unlinked = TRUE]
                      ELSE threads[u]]
    /\ UNCHANGED now
    /\ RaceFrame

\* Time passes between calls: a call takes less than a tick of the clock.
RaceTick ==
    /\ \A t \in Threads : ~Running(t)
    /\ now < MaxTime
    /\ now' = now + 1
    /\ UNCHANGED <<store, threads>>
    /\ RaceFrame

NextRace ==
    \/ \E t \in Threads, data \in Payloads, ttl \in {NoTtl, Ttl(1)} :
          SetBegin(t, data, ttl)
    \/ \E t \in Threads : SetOpen(t)
    \/ \E t \in Threads : SetWrite(t)
    \/ \E t \in Threads : GetBegin(t)
    \/ \E t \in Threads : GetExists(t)
    \/ \E t \in Threads : GetLoad(t)
    \/ \E t \in Threads : GetDeleteExists(t)
    \/ \E t \in Threads : GetUnlink(t)
    \/ RaceTick

SpecRace == InitRace /\ [][NextRace]_vars

\* The thread's last call is over and was the given operation.
Finished(t, op) == threads[t].op = op /\ ~Running(t)

\* C24: when a get that found an expired entry and a set of a fresh entry
\* that ran together with it are both over and the set returned True, the
\* fresh entry is in the file: the delete of get removed only what get saw.
C24_EvictionSparesFreshEntry ==
    \A g \in Threads : \A s \in Threads \ {g} :
       (/\ Finished(g, "get")
        /\ threads[g].entry # None
        /\ ~threads[g].ok
        /\ Finished(s, "set")
        /\ threads[s].ok
        /\ s \in threads[g].with
        /\ g \in threads[s].with
        /\ ~is_expired(threads[s].entry[1], now))
       => Unpickled(IF File = None THEN <<>> ELSE File[1]) = threads[s].entry

\* C25: a get that ran together with a set, both begun while the file held
\* the same complete entry, unexpired to this day, returns that entry or
\* the entry of the set, never None.
C25_GetSeesOldOrNew ==
    \A g \in Threads : \A s \in Threads \ {g} :
       (/\ Finished(g, "get")
        /\ threads[s].op = "set"
        /\ s \in threads[g].with
        /\ g \in threads[s].with
        /\ threads[s].before # None
        /\ threads[g].before = threads[s].before
        /\ Unpickled(threads[s].before[1]) # None
        /\ ~is_expired(Unpickled(threads[s].before[1])[1], now)
        /\ ~is_expired(threads[s].entry[1], now))
       => threads[g].hit \in {Unpickled(threads[s].before[1]),
                              threads[s].entry}

\* C26: when two sets of the key are both over, the file holds the
\* complete entry of one of them, not a mixture of the two.
C26_OneWriterWins ==
    \A a \in Threads : \A b \in Threads \ {a} :
       (/\ Finished(a, "set") /\ threads[a].ok
        /\ Finished(b, "set") /\ threads[b].ok)
       => /\ File # None
          /\ File[1] \in {Pickled(threads[a].entry[1]),
                          Pickled(threads[b].entry[1])}

====
